---- MODULE Spec2Model ----
(***************************************************************************)
(* A model of python-gedcom (src/gedcom/__init__.py): the GEDCOM line      *)
(* grammar and tree builder (Gedcom.__parse / __parse_line), the element   *)
(* list / dictionary caches, the multi-line value codec of Element and the *)
(* relationship queries.                                                   *)
(*                                                                         *)
(* Text is modelled character by character: a string is a sequence of      *)
(* one-character strings, so len(), slicing and the regular expression of  *)
(* __parse_line are computed as the code computes them.                    *)
(*                                                                         *)
(* Elements live in a store `elements`, a sequence of records; an element  *)
(* is named by its index.  Index 1 is the virtual root created by          *)
(* Gedcom.__init__; parent 0 stands for Python's None.                     *)
(***************************************************************************)
EXTENDS Integers, Sequences, FiniteSets, TLC

VARIABLES
    elements,      \* the Element objects: level, pointer, tag, value, crlf, children, parent
    element_list,  \* Gedcom.__element_list (cache), a sequence of element ids
    element_dict,  \* Gedcom.__element_dict (cache), a function pointer -> element id
    pc,            \* "parsing" (inside Gedcom.__init__), "done" (constructed), "error" (raised)
    line_number,   \* __parse's line_number
    last_element,  \* __parse's last_element (an element id)
    text,          \* the file content consumed so far (concatenation of the lines read)
    line,          \* __parse's loop variable: the line last handed to __parse_line
    eof,           \* TRUE once the file iterator has delivered its last line
    error,         \* the exception raised by the parse, or NoError
    result,        \* the returned value (or raised error) of the last call made on the object
    calls,         \* number of calls made so far that changed the forest
    unread,        \* the accessors among element_list, element_dict that were
                   \* not called since the last invalidate_cache()
    threads,       \* for each thread that calls an accessor concurrently: the
                   \* accessor, the position in it, its local variables and
                   \* the value it returned
    stack          \* the frames of the get_ancestors calls in progress, the
                   \* outermost first: each with its arguments and its locals

vars == <<elements, element_list, element_dict, pc, line_number, last_element,
          text, line, eof, error, result, calls, unread, threads, stack>>

----------------------------------------------------------------------------
(* Strings *)

SP == " "
LF == "\n"
CR == "\r"
AT == "@"

DigitSeq == <<"0", "1", "2", "3", "4", "5", "6", "7", "8", "9">>

DigitChars == {DigitSeq[i] : i \in 1..10}

NonZeroDigitChars == DigitChars \ {"0"}

TagChars ==
    DigitChars \cup {"_"} \cup
    {"A", "B", "C", "D", "E", "F", "G", "H", "I", "J", "K", "L", "M",
     "N", "O", "P", "Q", "R", "S", "T", "U", "V", "W", "X", "Y", "Z"} \cup
    {"a", "b", "c", "d", "e", "f", "g", "h", "i", "j", "k", "l", "m",
     "n", "o", "p", "q", "r", "s", "t", "u", "v", "w", "x", "y", "z"}

EolChars == {CR, LF}

\* s[i:] of Python, for a 0-based index i
From(s, i) == SubSeq(s, i + 1, Len(s))

\* s[:n] of Python
Upto(s, n) == SubSeq(s, 1, n)

\* n copies of the character c
Rep(c, n) == [i \in 1..n |-> c]

DigitVal(c) == CHOOSE d \in 0..9 : DigitSeq[d + 1] = c

\* int(s) for a string of decimal digits
RECURSIVE int(_)
int(s) ==
    IF s = <<>> THEN 0
    ELSE 10 * int(Upto(s, Len(s) - 1)) + DigitVal(s[Len(s)])

\* str(n) for a natural number n
RECURSIVE str(_)
str(n) ==
    IF n < 10 THEN <<DigitSeq[n + 1]>>
    ELSE str(n \div 10) \o <<DigitSeq[(n % 10) + 1]>>

\* the least position j in lo..hi at which the run of characters "in S"
\* (when inS) or "not in S" (when ~inS) stops, hi + 1 when it does not stop;
\* found by halving the range, so that long strings need no deep recursion
RECURSIVE FirstStop(_, _, _, _, _)
FirstStop(s, lo, hi, S, inS) ==
    IF lo > hi THEN lo
    ELSE IF lo = hi THEN (IF (s[lo] \in S) # inS THEN lo ELSE lo + 1)
    ELSE LET left == FirstStop(s, lo, (lo + hi) \div 2, S, inS) IN
         IF left <= (lo + hi) \div 2 THEN left
         ELSE FirstStop(s, ((lo + hi) \div 2) + 1, hi, S, inS)

\* length of the longest run of characters "in S" (when inS) or "not in S"
\* (when ~inS) that starts at the 1-based position i of s: what a greedy
\* character-class repetition of a regular expression consumes
RunLen(s, i, S, inS) == FirstStop(s, i, Len(s), S, inS) - i

----------------------------------------------------------------------------
(* Element *)

Root == 1
None == 0

TOP == <<"T", "O", "P">>
CONC == <<"C", "O", "N", "C">>
CONT == <<"C", "O", "N", "T">>
INDI == <<"I", "N", "D", "I">>
FAM == <<"F", "A", "M">>

\* Element.__init__: a fresh element without children or parent.  With
\* multi_line=True the constructor also calls set_multi_line_value(value);
\* every such call in the code passes value '', which leaves the fresh
\* element as it is.
Element(level, pointer, tag, value, crlf) ==
    [level |-> level, pointer |-> pointer, tag |-> tag, value |-> value,
     crlf |-> crlf, children |-> <<>>, parent |-> None]

\* add_child putting the child before the children there are
add_child_first(els, p, c) ==
    [els EXCEPT ![p].children = <<c>> \o @, ![c].parent = p]

\* Element.add_child / add_parent: append child c to the children of p and
\* set c's parent
add_child(els, p, c) ==
    [els EXCEPT ![p].children = Append(@, c), ![c].parent = p]

\* Element.__unicode__
unicode(e) ==
    IF e.level < 0 THEN <<>>
    ELSE str(e.level)
         \o (IF e.pointer # <<>> THEN <<SP>> \o e.pointer ELSE <<>>)
         \o <<SP>> \o e.tag
         \o (IF e.value # <<>> THEN <<SP>> \o e.value ELSE <<>>)
         \o e.crlf

\* Element.get_individual: the element and all its sub-elements, serialized
RECURSIVE get_individual(_, _)
RECURSIVE get_individual_children(_, _, _)
get_individual(els, id) ==
    unicode(els[id]) \o get_individual_children(els, els[id].children, 1)

get_individual_children(els, ch, i) ==
    IF i > Len(ch) THEN <<>>
    ELSE get_individual(els, ch[i]) \o get_individual_children(els, ch, i + 1)

----------------------------------------------------------------------------
(* Element: the multi-line value codec *)

MaxLineLength == 255

\* the budget computed from the line without its terminator: one too many
avail_chars_no_crlf(e) ==
    LET n == Len(unicode(e)) - Len(e.crlf) IN
    IF n > MaxLineLength THEN 0 ELSE MaxLineLength - n

\* Element.__avail_chars
avail_chars(e) ==
    LET n == Len(unicode(e)) IN
    IF n > MaxLineLength THEN 0 ELSE MaxLineLength - n

\* the loop of __line_length left out: no space is counted
count_spaces_none(string, avail, spaces) == 0

\* the loop of __line_length: the number of spaces that end string[:avail]
RECURSIVE count_spaces(_, _, _)
count_spaces(string, avail, spaces) ==
    IF spaces < avail /\ string[avail - spaces] = SP
    THEN count_spaces(string, avail, spaces + 1)
    ELSE spaces

\* __line_length without its "spaces == avail" case: a chunk of spaces only
\* is cut before its first space
line_length_no_all_spaces_case(e, string) ==
    LET total == Len(string)
        avail == avail_chars(e)
    IN  IF total <= avail THEN total
        ELSE avail - count_spaces(string, avail, 0)

\* Element.__line_length
line_length(e, string) ==
    LET total == Len(string)
        avail == avail_chars(e)
    IN  IF total <= avail THEN total
        ELSE LET spaces == count_spaces(string, avail, 0) IN
             IF spaces = avail THEN avail ELSE avail - spaces

\* Element.__set_bounded_value: the new store and the number n returned
set_bounded_value(els, id, value) ==
    LET n == line_length(els[id], value) IN
    [elements |-> [els EXCEPT ![id].value = Upto(value, n)], n |-> n]

\* Element.new_child(tag, pointer): the store with the new child of id as
\* its last element
new_child(els, id, tag, pointer) ==
    add_child(Append(els, Element(els[id].level + 1, pointer, tag, <<>>, els[id].crlf)),
              id, Len(els) + 1)

\* __add_bounded_child with a child that is made with the whole value in it:
\* the budget is what the line with that value leaves
add_bounded_child_value_first(els, id, tag, value) ==
    set_bounded_value([new_child(els, id, tag, <<>>) EXCEPT ![Len(els) + 1].value = value],
                      Len(els) + 1, value)

\* Element.__add_bounded_child
add_bounded_child(els, id, tag, value) ==
    set_bounded_value(new_child(els, id, tag, <<>>), Len(els) + 1, value)

\* Element.__add_concatenation, from the given index on.  A child that
\* stores no character leaves index where it was, and the loop never ends:
\* hangs is TRUE and the call does not return.
RECURSIVE add_concatenation(_, _, _, _)
add_concatenation(els, id, string, index) ==
    IF index < Len(string)
    THEN LET r == add_bounded_child(els, id, CONC, From(string, index)) IN
         IF r.n = 0 THEN [elements |-> r.elements, hangs |-> TRUE]
         ELSE add_concatenation(r.elements, id, string, index + r.n)
    ELSE [elements |-> els, hangs |-> FALSE]

\* str.splitlines() on "\n", "\r" and "\r\n": the lines without their line
\* breaks; a line break that ends the string opens no further line
RECURSIVE splitlines(_)
splitlines(s) ==
    IF s = <<>> THEN <<>>
    ELSE LET k == RunLen(s, 1, EolChars, FALSE) IN
         IF k = Len(s) THEN <<s>>
         ELSE <<Upto(s, k)>> \o
              splitlines(From(s, IF s[k + 1] = CR /\ k + 2 <= Len(s) /\ s[k + 2] = LF
                                 THEN k + 2 ELSE k + 1))

\* the filter of set_multi_line_value with "CONC" only: CONT children stay
not_continuation_conc_only(els, ch) ==
    SelectSeq(ch, LAMBDA c : els[c].tag # CONC)

\* the children of a list that are not CONC or CONT
RECURSIVE not_continuation(_, _)
not_continuation(els, ch) ==
    IF ch = <<>> THEN <<>>
    ELSE (IF els[Head(ch)].tag \in {CONC, CONT} THEN <<>> ELSE <<Head(ch)>>)
         \o not_continuation(els, Tail(ch))

\* "for line in lines": a CONT child per further line, and its CONC children
RECURSIVE add_continuation_lines(_, _, _)
add_continuation_lines(els, id, lines) ==
    IF lines = <<>> THEN [elements |-> els, hangs |-> FALSE]
    ELSE LET b == add_bounded_child(els, id, CONT, Head(lines))
             c == add_concatenation(b.elements, id, From(Head(lines), b.n), 0)
         IN  IF c.hangs THEN c
             ELSE add_continuation_lines(c.elements, id, Tail(lines))

\* Element.set_multi_line_value
set_multi_line_value(els, id, value) ==
    LET cleared == [els EXCEPT ![id].value = <<>>,
                               ![id].children = not_continuation(els, @)]
        lines == splitlines(value)
    IN  IF lines = <<>> THEN [elements |-> cleared, hangs |-> FALSE]
        ELSE LET b == set_bounded_value(cleared, id, Head(lines))
                 c == add_concatenation(b.elements, id, From(Head(lines), b.n), 0)
             IN  IF c.hangs THEN c
                 ELSE add_continuation_lines(c.elements, id, Tail(lines))

\* Element.multi_line_value: the loop over the children from the i-th on
RECURSIVE multi_line_children(_, _, _, _, _)
multi_line_children(els, ch, i, res, last_crlf) ==
    IF i > Len(ch) THEN res
    ELSE LET e == els[ch[i]] IN
         IF e.tag = CONC
         THEN multi_line_children(els, ch, i + 1, res \o e.value, e.crlf)
         ELSE IF e.tag = CONT
         THEN multi_line_children(els, ch, i + 1, res \o last_crlf \o e.value, e.crlf)
         ELSE multi_line_children(els, ch, i + 1, res, last_crlf)

\* Element.multi_line_value
multi_line_value(els, id) ==
    multi_line_children(els, els[id].children, 1, els[id].value, els[id].crlf)

----------------------------------------------------------------------------
(* Gedcom.__parse_line: the line grammar *)

NoMatch == [ok |-> FALSE]

\* regex.match(ged_line_regex, line).groups(), group by group.  Every
\* quantifier of the expression is greedy and is followed by a character its
\* class excludes, so backtracking never finds a second way to match: each
\* group is the maximal run.  The expression is anchored at the start only.
\* Positions are 1-based: the level is s[1..d], the pointer group starts at
\* p, the tag at q, the value group at r and the end of line at e.

\* '([\r\n]{1,2})'
match_crlf(s, d, p, q, r, e) ==
    LET c == IF e <= Len(s) /\ s[e] \in EolChars
             THEN (IF e + 1 <= Len(s) /\ s[e + 1] \in EolChars THEN 2 ELSE 1)
             ELSE 0
    IN  IF c >= 1
        THEN [ok |-> TRUE,
              groups |-> <<Upto(s, d), SubSeq(s, p, q - 1), SubSeq(s, q, r - 1),
                           SubSeq(s, r, e - 1), SubSeq(s, e, e + c - 1)>>]
        ELSE NoMatch

\* '( [^\n\r]*|)'
match_value(s, d, p, q, r) ==
    match_crlf(s, d, p, q, r,
               IF r <= Len(s) /\ s[r] = SP
               THEN r + 1 + RunLen(s, r + 1, EolChars, FALSE)
               ELSE r)

\* '([A-Za-z0-9_]+)'
match_tag(s, d, p, q) ==
    LET t == RunLen(s, q, TagChars, TRUE) IN
    IF t >= 1 THEN match_value(s, d, p, q, q + t) ELSE NoMatch

\* '(@[^@]+@ |)'
match_pointer(s, d, p) ==
    LET k == IF p <= Len(s) /\ s[p] = AT THEN RunLen(s, p + 1, {AT}, FALSE) ELSE 0
        hasPtr == /\ k >= 1
                  /\ p + k + 2 <= Len(s)
                  /\ s[p + k + 1] = AT
                  /\ s[p + k + 2] = SP
    IN  match_tag(s, d, p, IF hasPtr THEN p + k + 3 ELSE p)

\* '^(0|[1-9]+[0-9]*) '
ged_line_regex(s) ==
    LET d == IF s # <<>> /\ s[1] = "0" THEN 1
             ELSE IF s # <<>> /\ s[1] \in NonZeroDigitChars
                  THEN RunLen(s, 1, DigitChars, TRUE)
                  ELSE 0
    IN  IF d >= 1 /\ d + 1 <= Len(s) /\ s[d + 1] = SP
        THEN match_pointer(s, d, d + 2)
        ELSE NoMatch

\* pointer = line_parts[1].rstrip(' ')
RECURSIVE rstrip(_)
rstrip(s) ==
    IF s # <<>> /\ s[Len(s)] = SP THEN rstrip(Upto(s, Len(s) - 1)) ELSE s

NoError == [kind |-> "none", line |-> 0]

\* raise SyntaxError("Line %d of document violates GEDCOM format" ...)
GrammarError(line_num) == [kind |-> "grammar", line |-> line_num]

\* raise SyntaxError("Line %d ... Lines must be no more than one level higher
\* than previous line." ...)
StructureError(line_num) == [kind |-> "structure", line |-> line_num]

\* the level check off by one: a jump of two levels passes
level_too_high_by_two(level, last_level) == level > last_level + 2

\* "Check level: should never be more than one higher than previous line."
level_too_high(level, last_level) == level > last_level + 1

\* the parent search without the walk up: the last element is the parent
parent_elem_no_walk(els, id, level) == id

\* "Start with last element as parent, back up if necessary."
RECURSIVE parent_elem(_, _, _)
parent_elem(els, id, level) ==
    IF id # None /\ els[id].level > level - 1
    THEN parent_elem(els, els[id].parent, level)
    ELSE id

\* Gedcom.__parse_line as a function: the error raised, or the new store and
\* the element returned
parse_line(els, line_num, l, last_elem) ==
    LET m == ged_line_regex(l) IN
    IF ~m.ok THEN [error |-> GrammarError(line_num)]
    ELSE
      LET level == int(m.groups[1])
          pointer == rstrip(m.groups[2])
          tag == m.groups[3]
          value == From(m.groups[4], 1)
          crlf == m.groups[5]
      IN  IF level_too_high(level, els[last_elem].level)
          THEN [error |-> StructureError(line_num)]
          ELSE
            LET id == Len(els) + 1
                withNew == Append(els, Element(level, pointer, tag, value, crlf))
            IN  [error |-> NoError,
                 elements |-> add_child(withNew, parent_elem(els, last_elem, level), id),
                 element |-> id]

----------------------------------------------------------------------------
(* Gedcom: the element list and the element dictionary *)

\* a dictionary is a function from its keys; {} of Python
EmptyDict == [k \in {} |-> None]

\* d[k] = v
Put(d, k, v) == [x \in DOMAIN d \cup {k} |-> IF x = k THEN v ELSE d[x]]

\* Gedcom.records: root().children()
records(els) == els[Root].children

\* Gedcom.__build_list: element_list extended by the element and, child by
\* child, by its sub-elements
RECURSIVE build_list(_, _, _)
RECURSIVE build_list_children(_, _, _, _)
build_list(els, element, list) ==
    build_list_children(els, els[element].children, 1, Append(list, element))

build_list_children(els, ch, i, list) ==
    IF i > Len(ch) THEN list
    ELSE build_list_children(els, ch, i + 1, build_list(els, ch[i], list))

\* "for element in self.records(): self.__build_list(element, ...)"
RECURSIVE build_lists(_, _, _)
build_lists(els, recs, list) ==
    IF recs = <<>> THEN list
    ELSE build_lists(els, Tail(recs), build_list(els, Head(recs), list))

\* Gedcom.element_list: the cache after the call, which is the list returned
element_list_of(els, cache) ==
    IF cache = <<>> THEN build_lists(els, records(els), cache) ELSE cache

\* {element.pointer(): element for element in self.records() if
\* element.pointer()}: a later element replaces an earlier one of the same
\* pointer
RECURSIVE pointer_dict(_, _, _)
pointer_dict(els, recs, d) ==
    IF recs = <<>> THEN d
    ELSE pointer_dict(els, Tail(recs),
                      IF els[Head(recs)].pointer # <<>>
                      THEN Put(d, els[Head(recs)].pointer, Head(recs))
                      ELSE d)

\* element_dict without the cache: the dictionary is built at every call
element_dict_of_rebuilt(els, cache) == pointer_dict(els, records(els), EmptyDict)

\* Gedcom.element_dict: the cache after the call, which is the dictionary
\* returned
element_dict_of(els, cache) ==
    IF DOMAIN cache = {} THEN pointer_dict(els, records(els), EmptyDict) ELSE cache

Accessors == {"element_list", "element_dict"}

\* the number of threads that call the accessors concurrently
NumThreads == 2

Threads == 1..NumThreads

\* a thread outside any call; n counts the calls it has made
Idle(n) ==
    [at |-> "idle", op |-> "none", todo |-> <<>>, built |-> EmptyDict,
     returned |-> <<>>, n |-> n]

\* no thread has called anything yet
NoThreads == [t \in Threads |-> Idle(0)]

----------------------------------------------------------------------------
(* Gedcom.__init__ and Gedcom.__parse *)

NoResult == [op |-> "none"]

\* Gedcom.__init__ up to the call of __parse: empty caches, the virtual root
Init ==
    /\ elements = <<Element(-1, <<>>, TOP, <<>>, <<LF>>)>>
    /\ element_list = <<>>
    /\ element_dict = EmptyDict
    /\ pc = "parsing"
    /\ line_number = 1
    /\ last_element = Root
    /\ text = <<>>
    /\ line = <<>>
    /\ eof = FALSE
    /\ error = NoError
    /\ result = NoResult
    /\ calls = 0
    /\ unread = Accessors
    /\ threads = NoThreads
    /\ stack = <<>>

\* one iteration of the loop of __parse on the next line of the file.  The
\* file is opened in binary mode, so its iterator ends a line after each
\* "\n" and only the last line of the file can lack one.
ParseLine(l) ==
    /\ pc = "parsing"
    /\ ~eof
    /\ LET r == parse_line(elements, line_number, l, last_element) IN
       /\ text' = text \o l
       /\ line' = l
       /\ eof' = (l[Len(l)] # LF)
       /\ IF r.error # NoError
          THEN /\ error' = r.error
               /\ pc' = "error"
               /\ UNCHANGED <<elements, last_element, line_number>>
          ELSE /\ elements' = r.elements
               /\ last_element' = r.element
               /\ line_number' = line_number + 1
               /\ UNCHANGED <<error, pc>>
    /\ UNCHANGED <<stack, threads, element_list, element_dict, result, calls, unread>>

\* the file iterator is exhausted: __parse and __init__ return
EndOfFile ==
    /\ pc = "parsing"
    /\ pc' = "done"
    /\ eof' = TRUE
    /\ UNCHANGED <<stack, threads, elements, element_list, element_dict, line_number,
                   last_element, text, line, error, result, calls, unread>>

\* Gedcom.__parse on a whole file, given as the list of its lines: the loop
\* from the state st = [elements, last_element, line_number, error] on
RECURSIVE parse(_, _)
parse(st, lines) ==
    IF lines = <<>> \/ st.error # NoError THEN st
    ELSE LET r == parse_line(st.elements, st.line_number, Head(lines), st.last_element) IN
         IF r.error # NoError THEN [st EXCEPT !.error = r.error]
         ELSE parse([elements |-> r.elements, last_element |-> r.element,
                     line_number |-> st.line_number + 1, error |-> NoError],
                    Tail(lines))

\* the characters of a list of lines
RECURSIVE Joined(_)
Joined(lines) == IF lines = <<>> THEN <<>> ELSE Head(lines) \o Joined(Tail(lines))

\* the state in which Gedcom(file) returns, for a file that parses
Constructed(file) ==
    LET st == parse([elements |-> <<Element(-1, <<>>, TOP, <<>>, <<LF>>)>>,
                     last_element |-> Root, line_number |-> 1, error |-> NoError],
                    file)
    IN  /\ st.error = NoError
        /\ elements = st.elements
        /\ element_list = <<>>
        /\ element_dict = EmptyDict
        /\ pc = "done"
        /\ line_number = st.line_number
        /\ last_element = st.last_element
        /\ text = Joined(file)
        /\ line = IF file = <<>> THEN <<>> ELSE file[Len(file)]
        /\ eof = TRUE
        /\ error = NoError
        /\ result = NoResult
        /\ calls = 0
        /\ unread = Accessors
        /\ threads = NoThreads
        /\ stack = <<>>

----------------------------------------------------------------------------
(* The files read: every line is one of InputLines, at most MaxLines lines *)

MaxLines == 4

ValidLines ==
    { <<"0", SP, "A", LF>>,
      <<"1", SP, "A", LF>>,
      <<"2", SP, "A", LF>>,
      <<"0", SP, AT, "I", AT, SP, "A", LF>>,
      <<"1", SP, "B", SP, "x", CR, LF>>,
      <<"1", SP, "A", SP, LF>>,
      <<"0", SP, "A", CR, CR, LF>>,
      <<"0", SP, "B", CR, "x", LF>>,
      <<"1", SP, "A", CR>> }

InvalidLines ==
    { <<"0", "1", SP, "A", LF>>,
      <<"1", SP, LF>>,
      <<"1", SP, "-", LF>>,
      <<"0", SP, "A">>,
      <<"1", "A", LF>>,
      <<LF>>,
      <<"1", SP, AT, "I", SP, "A", LF>> }

InputLines == ValidLines \cup InvalidLines

ReadLine ==
    /\ line_number <= MaxLines
    /\ \E l \in InputLines : ParseLine(l)

Next == ReadLine \/ EndOfFile

Spec == Init /\ [][Next]_vars

----------------------------------------------------------------------------
(* Calls on a constructed Gedcom object and its elements *)

\* the value passed to the set_multi_line_value call that the current call
\* directly follows on the same element, as a list of at most one value
PrecedingSet(id) ==
    IF result.op = "set_multi_line_value" /\ result.element = id
    THEN <<result.value>>
    ELSE <<>>

\* element.set_multi_line_value(value)
SetMultiLineValue(id, value) ==
    /\ pc = "done"
    /\ LET r == set_multi_line_value(elements, id, value) IN
       IF r.hangs
       THEN /\ pc' = "hung"
            /\ UNCHANGED <<elements, result>>
       ELSE /\ elements' = r.elements
            /\ result' = [op |-> "set_multi_line_value", element |-> id, value |-> value]
            /\ UNCHANGED pc
    /\ calls' = calls + 1
    /\ UNCHANGED <<stack, threads, element_list, element_dict, line_number, last_element,
                   text, line, eof, error, unread>>

\* element.multi_line_value()
MultiLineValue(id) ==
    /\ pc = "done"
    /\ result' = [op |-> "multi_line_value", element |-> id,
                  value |-> multi_line_value(elements, id),
                  set |-> PrecedingSet(id)]
    /\ UNCHANGED <<stack, threads, elements, element_list, element_dict, pc, line_number,
                   last_element, text, line, eof, error, calls, unread>>

\* gedcom.invalidate_cache()
InvalidateCache ==
    /\ pc = "done"
    /\ element_list' = <<>>
    /\ element_dict' = EmptyDict
    /\ unread' = Accessors
    /\ result' = [op |-> "invalidate_cache"]
    /\ UNCHANGED <<stack, threads, elements, pc, line_number, last_element, text, line, eof,
                   error, calls>>

\* gedcom.element_list(); first tells whether no element_list() was called
\* since the last invalidate_cache()
ElementList ==
    /\ pc = "done"
    /\ element_list' = element_list_of(elements, element_list)
    /\ result' = [op |-> "element_list", value |-> element_list',
                  first |-> "element_list" \in unread]
    /\ unread' = unread \ {"element_list"}
    /\ UNCHANGED <<stack, threads, elements, element_dict, pc, line_number, last_element, text,
                   line, eof, error, calls>>

\* gedcom.element_dict(); first tells whether no element_dict() was called
\* since the last invalidate_cache()
ElementDict ==
    /\ pc = "done"
    /\ element_dict' = element_dict_of(elements, element_dict)
    /\ result' = [op |-> "element_dict", value |-> element_dict',
                  first |-> "element_dict" \in unread]
    /\ unread' = unread \ {"element_dict"}
    /\ UNCHANGED <<stack, threads, elements, element_list, pc, line_number, last_element, text,
                   line, eof, error, calls>>

\* element.new_child(tag, pointer): a manual edit of the forest
NewChild(id, tag, pointer) ==
    /\ pc = "done"
    /\ elements' = new_child(elements, id, tag, pointer)
    /\ result' = [op |-> "new_child", value |-> Len(elements) + 1]
    /\ calls' = calls + 1
    /\ UNCHANGED <<stack, threads, element_list, element_dict, pc, line_number, last_element,
                   text, line, eof, error, unread>>

----------------------------------------------------------------------------
(* The caches: a file of at most MaxCacheLines lines is parsed, then the   *)
(* accessors and invalidate_cache() are called and at most MaxEdits        *)
(* children are added by hand                                              *)

MaxCacheLines == 3

MaxEdits == 1

CacheLines ==
    { <<"0", SP, AT, "I", AT, SP, "A", LF>>,
      <<"1", SP, AT, "N", AT, SP, "B", LF>>,
      <<"0", SP, "B", LF>>,
      <<"1", SP, "C", LF>> }

ReadCacheLine ==
    /\ line_number <= MaxCacheLines
    /\ \E l \in CacheLines : ParseLine(l)

Edit ==
    /\ calls < MaxEdits
    /\ \E id \in DOMAIN elements, pointer \in {<<>>, <<AT, "M", AT>>} :
          NewChild(id, <<"D">>, pointer)

NextCache ==
    ReadCacheLine \/ EndOfFile \/ InvalidateCache \/ ElementList \/ ElementDict \/ Edit

SpecCache == Init /\ [][NextCache]_vars

----------------------------------------------------------------------------
(* The codec on one record: a file of one record, which is then given at  *)
(* most MaxEncodes values of at most MaxSegments segments each             *)

MaxSegments == 3

MaxEncodes == 2

NOTE == <<"N", "O", "T", "E">>

\* a pointer of n characters
PointerOfLength(n) == <<AT>> \o Rep("x", n - 2) \o <<AT>>

\* the files: a record without a pointer, one with a short pointer and
\* "\r\n", one whose pointer leaves one character of the budget, one whose
\* pointer alone exceeds the budget, and a record that already has CONC and
\* CONT children among other children
CodecFiles ==
    { << <<"0", SP>> \o NOTE \o <<LF>> >>,
      << <<"0", SP>> \o PointerOfLength(3) \o <<SP>> \o NOTE \o <<CR, LF>> >>,
      << <<"0", SP>> \o PointerOfLength(246) \o <<SP>> \o NOTE \o <<LF>> >>,
      << <<"0", SP>> \o PointerOfLength(250) \o <<SP>> \o NOTE \o <<LF>> >>,
      << <<"0", SP>> \o NOTE \o <<SP, "a", LF>>,
         <<"1", SP>> \o CONC \o <<SP, "b", LF>>,
         <<"1", SP, "D", "A", "T", "E", LF>>,
         <<"1", SP>> \o CONT \o <<SP, "c", LF>>,
         <<"1", SP, "S", "O", "U", "R", LF>> >> }

Segments ==
    { <<"a">>, Rep("a", 247), Rep(SP, 3), <<LF>>, <<CR>> }

RECURSIVE ValuesOf(_)
ValuesOf(n) ==
    IF n = 0 THEN {<<>>}
    ELSE LET shorter == ValuesOf(n - 1) IN
         shorter \cup {v \o seg : v \in shorter, seg \in Segments}

Values == ValuesOf(MaxSegments)

ShortValues == ValuesOf(1)

\* the first record of the file
Record == Root + 1

InitCodec == \E file \in CodecFiles : Constructed(file)

\* the first value given is any of Values; a later one is a short value or
\* the value of the call before it
Encode ==
    /\ calls < MaxEncodes
    /\ \E value \in IF calls = 0 THEN Values
                    ELSE ShortValues \cup
                         {PrecedingSet(Record)[i] : i \in DOMAIN PrecedingSet(Record)} :
          SetMultiLineValue(Record, value)

Decode == MultiLineValue(Record)

NextCodec == Encode \/ Decode

SpecCodec == InitCodec /\ [][NextCodec]_vars

----------------------------------------------------------------------------
(* Gedcom: families and family members *)

HUSB == <<"H", "U", "S", "B">>
WIFE == <<"W", "I", "F", "E">>
CHIL == <<"C", "H", "I", "L">>
FAMS == <<"F", "A", "M", "S">>
FAMC == <<"F", "A", "M", "C">>
ALL == <<"A", "L", "L">>
PARENTS == <<"P", "A", "R", "E", "N", "T", "S">>

\* is_individual without the comparison of the tag
is_individual_any_tag(e) == TRUE

\* Element.is_individual
is_individual(e) == e.tag = INDI

\* Element.is_family
is_family(e) == e.tag = FAM

\* raise ValueError(...)
ValueError == [raised |-> TRUE]

\* return value
Returned(value) == [raised |-> FALSE, value |-> value]

\* the is_family of the loop of families with the family check left out
families_is_family_any_record(els, d, child, family_type) ==
    /\ els[child].tag = family_type
    /\ els[child].value \in DOMAIN d

\* the is_family of the loop of families: the child has the tag asked for
\* and its value is a key of the dictionary whose element is a family
families_is_family(els, d, child, family_type) ==
    /\ els[child].tag = family_type
    /\ els[child].value \in DOMAIN d
    /\ is_family(els[d[els[child].value]])

\* the loop of families from child i on
RECURSIVE families_children(_, _, _, _, _, _)
families_children(els, d, ch, i, family_type, families) ==
    IF i > Len(ch) THEN families
    ELSE families_children(els, d, ch, i + 1, family_type,
             IF families_is_family(els, d, ch[i], family_type)
             THEN Append(families, d[els[ch[i]].value])
             ELSE families)

\* Gedcom.families, d being the dictionary element_dict() returns
families(els, d, individual, family_type) ==
    IF ~is_individual(els[individual]) THEN ValueError
    ELSE Returned(families_children(els, d, els[individual].children, 1,
                                    family_type, <<>>))

\* the is_family of the loop of get_family_members with PARENTS taken as ALL
members_is_family_parents_as_all(tag, mem_type) ==
    IF mem_type \in {HUSB, WIFE, CHIL} THEN tag = mem_type
    ELSE tag \in {HUSB, WIFE, CHIL}

\* the is_family of the loop of get_family_members: ALL, and any mem_type
\* that is none of the four named ones, selects the three member tags
members_is_family(tag, mem_type) ==
    IF mem_type = PARENTS THEN tag = HUSB \/ tag = WIFE
    ELSE IF mem_type = HUSB THEN tag = HUSB
    ELSE IF mem_type = WIFE THEN tag = WIFE
    ELSE IF mem_type = CHIL THEN tag = CHIL
    ELSE tag = HUSB \/ tag = WIFE \/ tag = CHIL

\* the loop of get_family_members from child i on
RECURSIVE family_members_children(_, _, _, _, _, _)
family_members_children(els, d, ch, i, mem_type, family_members) ==
    IF i > Len(ch) THEN family_members
    ELSE family_members_children(els, d, ch, i + 1, mem_type,
             IF members_is_family(els[ch[i]].tag, mem_type)
                /\ els[ch[i]].value \in DOMAIN d
             THEN Append(family_members, d[els[ch[i]].value])
             ELSE family_members)

\* Gedcom.get_family_members, d being the dictionary element_dict() returns
get_family_members(els, d, family, mem_type) ==
    IF ~is_family(els[family]) THEN ValueError
    ELSE Returned(family_members_children(els, d, els[family].children, 1,
                                          mem_type, <<>>))

\* gedcom.families(individual, family_type); the check of the tag comes
\* before the call of element_dict()
Families(individual, family_type) ==
    /\ pc = "done"
    /\ IF is_individual(elements[individual])
       THEN /\ element_dict' = element_dict_of(elements, element_dict)
            /\ unread' = unread \ {"element_dict"}
       ELSE UNCHANGED <<element_dict, unread>>
    /\ result' = [op |-> "families", element |-> individual, type |-> family_type,
                  outcome |-> families(elements, element_dict', individual,
                                       family_type)]
    /\ UNCHANGED <<stack, threads, elements, element_list, pc, line_number, last_element, text,
                   line, eof, error, calls>>

\* gedcom.get_family_members(family, mem_type)
GetFamilyMembers(family, mem_type) ==
    /\ pc = "done"
    /\ IF is_family(elements[family])
       THEN /\ element_dict' = element_dict_of(elements, element_dict)
            /\ unread' = unread \ {"element_dict"}
       ELSE UNCHANGED <<element_dict, unread>>
    /\ result' = [op |-> "get_family_members", element |-> family,
                  type |-> mem_type,
                  outcome |-> get_family_members(elements, element_dict', family,
                                                 mem_type)]
    /\ UNCHANGED <<stack, threads, elements, element_list, pc, line_number, last_element, text,
                   line, eof, error, calls>>

----------------------------------------------------------------------------
(* Gedcom: parents, ancestors and the path to an ancestor *)

NAT == <<"N", "A", "T">>
MREL == <<"_", "M", "R", "E", "L">>
FREL == <<"_", "F", "R", "E", "L">>
Natural == <<"N", "a", "t", "u", "r", "a", "l">>

\* the member type a child of a CHIL entry asks for with the marker ignored
\* whatever its value
marker_role_any_value(tag, value) ==
    IF tag = MREL THEN WIFE ELSE IF tag = FREL THEN HUSB ELSE <<>>

\* the member type a child of a CHIL entry asks for: a child of value
\* "Natural" asks for the wives when tagged _MREL and for the husbands when
\* tagged _FREL; any other child for nothing (the empty string)
marker_role(tag, value) ==
    IF value = Natural
    THEN IF tag = MREL THEN WIFE ELSE IF tag = FREL THEN HUSB ELSE <<>>
    ELSE <<>>

\* "for child in family_member.children()" of get_parents from child j on.
\* get_family_members cannot raise here, the families of families() being
\* tagged FAM.
RECURSIVE natural_parents_of_entry(_, _, _, _, _, _)
natural_parents_of_entry(els, d, family, ch, j, parents) ==
    IF j > Len(ch) THEN parents
    ELSE natural_parents_of_entry(els, d, family, ch, j + 1,
             IF marker_role(els[ch[j]].tag, els[ch[j]].value) # <<>>
             THEN parents \o get_family_members(els, d, family,
                                 marker_role(els[ch[j]].tag, els[ch[j]].value)).value
             ELSE parents)

\* "for family_member in family.children()" of get_parents from child i on
RECURSIVE natural_parents_of_family(_, _, _, _, _, _, _)
natural_parents_of_family(els, d, individual, family, ch, i, parents) ==
    IF i > Len(ch) THEN parents
    ELSE natural_parents_of_family(els, d, individual, family, ch, i + 1,
             IF els[ch[i]].tag = CHIL /\ els[ch[i]].value = els[individual].pointer
             THEN natural_parents_of_entry(els, d, family, els[ch[i]].children, 1,
                                           parents)
             ELSE parents)

\* "for family in families" of get_parents from family k on
RECURSIVE parents_of_families(_, _, _, _, _, _, _)
parents_of_families(els, d, individual, parent_type, fams, k, parents) ==
    IF k > Len(fams) THEN parents
    ELSE parents_of_families(els, d, individual, parent_type, fams, k + 1,
             IF parent_type = NAT
             THEN natural_parents_of_family(els, d, individual, fams[k],
                                            els[fams[k]].children, 1, parents)
             ELSE parents \o get_family_members(els, d, fams[k], PARENTS).value)

\* Gedcom.get_parents, d being the dictionary element_dict() returns
get_parents(els, d, individual, parent_type) ==
    IF ~is_individual(els[individual]) THEN ValueError
    ELSE Returned(parents_of_families(els, d, individual, parent_type,
                      families(els, d, individual, FAMC).value, 1, <<>>))

\* anc_type of a recursive call that passed its own anc_type on
recursive_anc_type_passed(anc_type) == anc_type

\* anc_type of the recursive call self.get_ancestors(parent): the default
recursive_anc_type(anc_type) == ALL

\* Gedcom.get_ancestors; a ValueError of a recursive call (on a parent that is
\* no individual) goes through to the caller.  The recursion ends on a
\* database without parent cycles.
RECURSIVE get_ancestors(_, _, _, _)
RECURSIVE ancestors_of_parents(_, _, _, _, _, _)
get_ancestors(els, d, individual, anc_type) ==
    IF ~is_individual(els[individual]) THEN ValueError
    ELSE LET parents == get_parents(els, d, individual, anc_type).value IN
         ancestors_of_parents(els, d, parents, 1, recursive_anc_type(anc_type),
                              parents)

\* "for parent in parents" of get_ancestors from parent i on
ancestors_of_parents(els, d, parents, i, anc_type, ancestors) ==
    IF i > Len(parents) THEN Returned(ancestors)
    ELSE LET r == get_ancestors(els, d, parents[i], anc_type) IN
         IF r.raised THEN ValueError
         ELSE ancestors_of_parents(els, d, parents, i + 1, anc_type,
                                   ancestors \o r.value)

\* return path
Found(path) == [raised |-> FALSE, found |-> TRUE, value |-> path]

\* return None
NotFound == [raised |-> FALSE, found |-> FALSE, value |-> <<>>]

\* the parents find_path_to_anc would follow were they those of type "ALL"
path_parent_type_all == ALL

\* the parents find_path_to_anc follows: self.get_parents(desc, "NAT")
path_parent_type == NAT

\* Gedcom.find_path_to_anc, an empty path standing for path=None; "not
\* desc.is_individual() and anc.is_individual()" is "(not ...) and ...".  A
\* ValueError of get_parents or of a recursive call goes through to the
\* caller.  The recursion ends on a database without parent cycles.
RECURSIVE find_path_to_anc(_, _, _, _, _)
RECURSIVE find_path_from_parents(_, _, _, _, _, _)
find_path_to_anc(els, d, desc, anc, path) ==
    IF ~is_individual(els[desc]) /\ is_individual(els[anc]) THEN ValueError
    ELSE LET p == IF path = <<>> THEN <<desc>> ELSE path IN
         IF els[p[Len(p)]].pointer = els[anc].pointer THEN Found(p)
         ELSE LET parents == get_parents(els, d, desc, path_parent_type) IN
              IF parents.raised THEN ValueError
              ELSE find_path_from_parents(els, d, parents.value, 1, anc, p)

\* "for par in parents" of find_path_to_anc from parent i on
find_path_from_parents(els, d, parents, i, anc, path) ==
    IF i > Len(parents) THEN NotFound
    ELSE LET potential_path ==
                 find_path_to_anc(els, d, parents[i], anc, Append(path, parents[i]))
         IN  IF potential_path.raised THEN ValueError
             ELSE IF potential_path.found THEN potential_path
             ELSE find_path_from_parents(els, d, parents, i + 1, anc, path)

\* the effect of a query on the caches: element_dict() is called, through
\* families(), once the query has passed its checks
QueryCaches(calls_element_dict) ==
    IF calls_element_dict
    THEN /\ element_dict' = element_dict_of(elements, element_dict)
         /\ unread' = unread \ {"element_dict"}
    ELSE UNCHANGED <<element_dict, unread>>

\* gedcom.get_parents(individual, parent_type)
GetParents(individual, parent_type) ==
    /\ pc = "done"
    /\ QueryCaches(is_individual(elements[individual]))
    /\ result' = [op |-> "get_parents", element |-> individual,
                  type |-> parent_type,
                  outcome |-> get_parents(elements, element_dict', individual,
                                          parent_type)]
    /\ UNCHANGED <<stack, threads, elements, element_list, pc, line_number, last_element, text,
                   line, eof, error, calls>>

\* gedcom.get_ancestors(individual, anc_type)
GetAncestors(individual, anc_type) ==
    /\ pc = "done"
    /\ QueryCaches(is_individual(elements[individual]))
    /\ result' = [op |-> "get_ancestors", element |-> individual,
                  type |-> anc_type,
                  outcome |-> get_ancestors(elements, element_dict', individual,
                                            anc_type)]
    /\ UNCHANGED <<stack, threads, elements, element_list, pc, line_number, last_element, text,
                   line, eof, error, calls>>

\* gedcom.find_path_to_anc(desc, anc): get_parents is reached, and with it
\* element_dict(), when desc is an individual whose pointer is not anc's
FindPathToAnc(desc, anc) ==
    /\ pc = "done"
    /\ QueryCaches(/\ is_individual(elements[desc])
                   /\ elements[desc].pointer # elements[anc].pointer)
    /\ result' = [op |-> "find_path_to_anc", element |-> desc, anc |-> anc,
                  outcome |-> find_path_to_anc(elements, element_dict', desc,
                                               anc, <<>>)]
    /\ UNCHANGED <<stack, threads, elements, element_list, pc, line_number, last_element, text,
                   line, eof, error, calls>>

----------------------------------------------------------------------------
(* Gedcom.get_ancestors call by call: each call in progress has a frame on *)
(* the stack, and the interpreter ends the outermost call with a           *)
(* RecursionError when a call would exceed its recursion limit             *)

\* the number of get_ancestors frames the interpreter allows
RecursionLimit == 4

\* the interpreter's "maximum recursion depth exceeded"
RecursionError == [raised |-> TRUE, recursion |-> TRUE]

\* get_ancestors(individual, anc_type) up to its loop: ValueError, or the
\* frame of the call with parents and ancestors set and the loop at its
\* first parent
walk_frame(els, d, individual, anc_type) ==
    IF ~is_individual(els[individual]) THEN ValueError
    ELSE LET parents == get_parents(els, d, individual, anc_type).value IN
         [raised |-> FALSE, individual |-> individual, anc_type |-> anc_type,
          parents |-> parents, parent |-> 1, ancestors |-> parents]

\* the call ends, with a list or with an exception that no frame catches
WalkEnds(outcome) ==
    /\ stack' = <<>>
    /\ result' = [op |-> "get_ancestors", element |-> stack[1].individual,
                  type |-> stack[1].anc_type, outcome |-> outcome]

\* gedcom.get_ancestors(individual, anc_type) is called
WalkCall(individual, anc_type) ==
    /\ pc = "done"
    /\ stack = <<>>
    /\ QueryCaches(is_individual(elements[individual]))
    /\ LET frame == walk_frame(elements, element_dict', individual, anc_type) IN
       IF frame.raised
       THEN /\ stack' = <<>>
            /\ result' = [op |-> "get_ancestors", element |-> individual,
                          type |-> anc_type, outcome |-> ValueError]
       ELSE /\ stack' = <<frame>>
            /\ result' = NoResult
    /\ UNCHANGED <<threads, elements, element_list, pc, line_number, last_element,
                   text, line, eof, error, calls>>

\* "ancestors = ancestors + self.get_ancestors(parent)": the call
WalkRecurse ==
    /\ stack # <<>>
    /\ LET top == stack[Len(stack)] IN
       /\ top.parent <= Len(top.parents)
       /\ IF Len(stack) >= RecursionLimit THEN WalkEnds(RecursionError)
          ELSE LET frame == walk_frame(elements, element_dict,
                                       top.parents[top.parent],
                                       recursive_anc_type(top.anc_type))
               IN  IF frame.raised THEN WalkEnds(ValueError)
                   ELSE /\ stack' = Append(stack, frame)
                        /\ UNCHANGED result
    /\ UNCHANGED <<threads, elements, element_list, element_dict, pc, line_number,
                   last_element, text, line, eof, error, calls, unread>>

\* "return ancestors", and in the caller the end of "ancestors = ancestors +
\* self.get_ancestors(parent)" and the step to the next parent
WalkReturn ==
    /\ stack # <<>>
    /\ LET top == stack[Len(stack)] IN
       /\ top.parent > Len(top.parents)
       /\ IF Len(stack) = 1 THEN WalkEnds(Returned(top.ancestors))
          ELSE /\ stack' = [Upto(stack, Len(stack) - 1) EXCEPT ![Len(stack) - 1] =
                               [@ EXCEPT !.ancestors = @ \o top.ancestors,
                                         !.parent = @ + 1]]
               /\ UNCHANGED result
    /\ UNCHANGED <<threads, elements, element_list, element_dict, pc, line_number,
                   last_element, text, line, eof, error, calls, unread>>

----------------------------------------------------------------------------
(* The queries: a file of two individuals and two families is parsed; the  *)
(* first individual has at most MaxLinks family links, the first family at *)
(* most MaxMembers members, and the second family has a sub-element that   *)
(* carries a pointer of its own                                            *)

MaxLinks == 2

MaxMembers == 3

I1 == <<AT, "I", "1", AT>>
I2 == <<AT, "I", "2", AT>>
F1 == <<AT, "F", "1", AT>>
F2 == <<AT, "F", "2", AT>>
\* the pointer of the sub-element of the second family
N1 == <<AT, "N", "1", AT>>
\* a pointer no element has
X1 == <<AT, "X", "1", AT>>

\* a line of the file
Line(level, pointer, tag, value) ==
    unicode(Element(level, pointer, tag, value, <<LF>>))

\* the links an individual is given: to the families, to the sub-element
\* (also tagged FAM), to an individual and to nothing
Links ==
    { Line(1, <<>>, FAMS, F1), Line(1, <<>>, FAMS, F2), Line(1, <<>>, FAMC, F1),
      Line(1, <<>>, FAMS, N1), Line(1, <<>>, FAMS, I2), Line(1, <<>>, FAMS, X1),
      Line(1, <<>>, FAMC, <<>>) }

\* the members a family is given, and a line whose tag is no member tag
Members ==
    { Line(1, <<>>, HUSB, I1), Line(1, <<>>, WIFE, I2), Line(1, <<>>, CHIL, I1),
      Line(1, <<>>, CHIL, X1), Line(1, <<>>, WIFE, N1), Line(1, <<>>, NOTE, I2) }

\* the lists of at most n elements of S
RECURSIVE ListsOf(_, _)
ListsOf(S, n) ==
    IF n = 0 THEN {<<>>}
    ELSE ListsOf(S, n - 1)
         \cup {Append(l, x) : l \in {m \in ListsOf(S, n - 1) : Len(m) = n - 1}, x \in S}

QueryFile(links, members) ==
    <<Line(0, I1, INDI, <<>>)>> \o links
    \o <<Line(0, I2, INDI, <<>>), Line(0, F1, FAM, <<>>)>> \o members
    \o <<Line(0, F2, FAM, <<>>), Line(1, N1, FAM, <<>>)>>

\* either the links or the members vary
QueryFiles ==
    {QueryFile(links, <<Line(1, <<>>, HUSB, I1), Line(1, <<>>, WIFE, I2)>>) :
        links \in ListsOf(Links, MaxLinks)}
    \cup {QueryFile(<<Line(1, <<>>, FAMS, F1)>>, members) :
        members \in ListsOf(Members, MaxMembers)}

FamilyTypes == {FAMS, FAMC}

MemberTypes == {ALL, PARENTS, HUSB, WIFE, CHIL}

InitQuery == \E file \in QueryFiles : Constructed(file)

\* the elements the queries are called on: the individuals and the families,
\* at any depth
Targets == {id \in DOMAIN elements : is_individual(elements[id]) \/ is_family(elements[id])}

CallFamilies ==
    \E individual \in Targets, family_type \in FamilyTypes :
        Families(individual, family_type)

CallGetFamilyMembers ==
    \E family \in Targets, mem_type \in MemberTypes :
        GetFamilyMembers(family, mem_type)

NextQuery == CallFamilies \/ CallGetFamilyMembers

SpecQuery == InitQuery /\ [][NextQuery]_vars

----------------------------------------------------------------------------
(* Kinship: a file of three generations is parsed.  I1 is the child of     *)
(* family F1, whose husband is I2 and whose wife is I3 or, in a malformed  *)
(* file, the record F2; I2 is the child of family F2, whose husband is I4. *)
(* The entry of I1 in F1 carries a line of value "Natural" that is no      *)
(* marker and at most MaxMarkers marker lines, the entry of I2 in F2 none  *)
(* or one.  No record is its own ancestor.  Then get_parents,             *)
(* get_ancestors and find_path_to_anc are called.                          *)

MaxMarkers == 2

I3 == <<AT, "I", "3", AT>>
I4 == <<AT, "I", "4", AT>>
Adopted == <<"A", "d", "o", "p", "t", "e", "d">>

\* the marker lines below a CHIL entry: the two markers of a natural parent
\* and a marker of another value
Markers ==
    { Line(2, <<>>, MREL, Natural), Line(2, <<>>, FREL, Natural),
      Line(2, <<>>, MREL, Adopted) }

KinFile(markers1, markers2, wife) ==
    << Line(0, I1, INDI, <<>>), Line(1, <<>>, FAMC, F1),
       Line(0, I2, INDI, <<>>), Line(1, <<>>, FAMC, F2),
       Line(0, I3, INDI, <<>>),
       Line(0, I4, INDI, <<>>),
       Line(0, F1, FAM, <<>>), Line(1, <<>>, HUSB, I2), Line(1, <<>>, WIFE, wife),
       Line(1, <<>>, CHIL, I3), Line(2, <<>>, MREL, Natural),
       Line(1, <<>>, CHIL, I1), Line(2, <<>>, NOTE, Natural) >> \o markers1
    \o << Line(0, F2, FAM, <<>>), Line(1, <<>>, HUSB, I4),
          Line(1, <<>>, CHIL, I2) >> \o markers2

KinFiles ==
    {KinFile(markers1, markers2, wife) :
        markers1 \in ListsOf(Markers, MaxMarkers),
        markers2 \in {<<>>, <<Line(2, <<>>, FREL, Natural)>>},
        wife \in {I3, F2}}

ParentTypes == {ALL, NAT}

InitKin == \E file \in KinFiles : Constructed(file)

CallGetParents ==
    \E individual \in Targets, parent_type \in ParentTypes :
        GetParents(individual, parent_type)

CallGetAncestors ==
    \E individual \in Targets, anc_type \in ParentTypes :
        GetAncestors(individual, anc_type)

CallFindPathToAnc ==
    \E desc \in Targets, anc \in Targets : FindPathToAnc(desc, anc)

NextKin ==
    \/ CallGetParents
    \/ CallGetAncestors
    \/ CallFindPathToAnc

SpecKin == InitKin /\ [][NextKin]_vars

----------------------------------------------------------------------------
(* Queries and caches: one of two kinship files is parsed; then the        *)
(* queries and the accessors are called, the caches are invalidated, and   *)
(* at most MaxEdits records are added by hand below the root               *)

PureFiles ==
    { KinFile(<<Line(2, <<>>, FREL, Natural), Line(2, <<>>, MREL, Natural)>>,
              <<Line(2, <<>>, FREL, Natural)>>, I3),
      KinFile(<<Line(2, <<>>, MREL, Natural)>>, <<>>, F2) }

InitPure == \E file \in PureFiles : Constructed(file)

\* gedcom.root().new_child("INDI", "@M@")
AddRecord ==
    /\ calls < MaxEdits
    /\ NewChild(Root, INDI, <<AT, "M", AT>>)

NextPure ==
    \/ CallFamilies
    \/ CallGetFamilyMembers
    \/ CallGetParents
    \/ CallGetAncestors
    \/ CallFindPathToAnc
    \/ ElementList
    \/ ElementDict
    \/ InvalidateCache
    \/ AddRecord

SpecPure == InitPure /\ [][NextPure]_vars

----------------------------------------------------------------------------
(* Threads: a file is parsed; then NumThreads threads call element_list()  *)
(* and element_dict(), at most MaxThreadCalls calls each, and nothing      *)
(* changes the forest or invalidates the caches.  A thread can be          *)
(* suspended between any two bytecodes, so the test of the cache, every    *)
(* append to the shared list, the assignment of the dictionary and the     *)
(* return are steps of their own.                                          *)

MaxThreadCalls == 2

ThreadFiles ==
    { << <<"0", SP, AT, "I", AT, SP, "A", LF>>,
         <<"1", SP, AT, "N", AT, SP, "B", LF>>,
         <<"0", SP, "B", LF>> >>,
      << <<"0", SP, AT, "I", AT, SP, "A", LF>> >> }

InitThreads == \E file \in ThreadFiles : Constructed(file)

\* what a step of a thread leaves alone
ThreadFrame ==
    UNCHANGED <<elements, pc, line_number, last_element, text, line, eof, error,
                result, calls, unread, stack>>

\* thread t calls element_list() or element_dict()
ThreadCall(t, accessor) ==
    /\ pc = "done"
    /\ threads[t].at = "idle"
    /\ threads[t].n < MaxThreadCalls
    /\ threads' = [threads EXCEPT ![t] =
                      [Idle(@.n + 1) EXCEPT !.at = "test", !.op = accessor]]
    /\ UNCHANGED <<element_list, element_dict>>
    /\ ThreadFrame

\* "if not self.__element_list:" and "if not self.__element_dict:".  The
\* forest does not change, so the appends that the loop over records() and
\* __build_list will make are known when the loop is entered: todo.  The
\* dictionary comprehension builds a dictionary of its own: built.
ThreadTest(t) ==
    /\ threads[t].at = "test"
    /\ threads' = [threads EXCEPT ![t] =
          IF @.op = "element_list"
          THEN IF element_list = <<>> /\ records(elements) # <<>>
               THEN [@ EXCEPT !.at = "build",
                              !.todo = build_lists(elements, records(elements), <<>>)]
               ELSE [@ EXCEPT !.at = "return"]
          ELSE IF DOMAIN element_dict = {}
               THEN [@ EXCEPT !.at = "assign",
                              !.built = pointer_dict(elements, records(elements),
                                                     EmptyDict)]
               ELSE [@ EXCEPT !.at = "return"]]
    /\ UNCHANGED <<element_list, element_dict>>
    /\ ThreadFrame

\* "element_list.append(element)" of __build_list, on the shared list
ThreadAppend(t) ==
    /\ threads[t].at = "build"
    /\ element_list' = Append(element_list, Head(threads[t].todo))
    /\ threads' = [threads EXCEPT ![t] =
          [@ EXCEPT !.todo = Tail(@),
                    !.at = IF Len(threads[t].todo) = 1 THEN "return" ELSE "build"]]
    /\ UNCHANGED element_dict
    /\ ThreadFrame

\* "self.__element_dict = {...}"
ThreadAssign(t) ==
    /\ threads[t].at = "assign"
    /\ element_dict' = threads[t].built
    /\ threads' = [threads EXCEPT ![t].at = "return"]
    /\ UNCHANGED element_list
    /\ ThreadFrame

\* "return self.__element_list" and "return self.__element_dict": the value
\* returned is the shared object as it is at the return
ThreadReturn(t) ==
    /\ threads[t].at = "return"
    /\ threads' = [threads EXCEPT ![t] =
          [@ EXCEPT !.at = "idle",
                    !.returned = IF threads[t].op = "element_list"
                                 THEN element_list
                                 ELSE element_dict]]
    /\ UNCHANGED <<element_list, element_dict>>
    /\ ThreadFrame

Call == \E t \in Threads, accessor \in Accessors : ThreadCall(t, accessor)

Test == \E t \in Threads : ThreadTest(t)

AppendStep == \E t \in Threads : ThreadAppend(t)

Assign == \E t \in Threads : ThreadAssign(t)

Return == \E t \in Threads : ThreadReturn(t)

NextThreads == Call \/ Test \/ AppendStep \/ Assign \/ Return

SpecThreads == InitThreads /\ [][NextThreads]_vars

----------------------------------------------------------------------------
(* The ancestor walk: a file of two generations is parsed, in which the    *)
(* husband of F1 is I2 or the record F2, its wife I3 or I2, and the        *)
(* husband of F2, the family I2 is a child of, is I4, I1 or I2 himself;    *)
(* with I1 or I2 there, I2 is his own ancestor.  Then get_ancestors is     *)
(* called, and a call in progress goes on until it ends                    *)

WalkFile(husband1, wife1, husband2, markers) ==
    << Line(0, I1, INDI, <<>>), Line(1, <<>>, FAMC, F1),
       Line(0, I2, INDI, <<>>), Line(1, <<>>, FAMC, F2),
       Line(0, I3, INDI, <<>>),
       Line(0, I4, INDI, <<>>),
       Line(0, F1, FAM, <<>>), Line(1, <<>>, HUSB, husband1),
       Line(1, <<>>, WIFE, wife1), Line(1, <<>>, CHIL, I1) >> \o markers
    \o << Line(0, F2, FAM, <<>>), Line(1, <<>>, HUSB, husband2),
          Line(1, <<>>, CHIL, I2) >>

WalkFiles ==
    {WalkFile(husband1, wife1, husband2, markers) :
        husband1 \in {I2, F2}, wife1 \in {I3, I2}, husband2 \in {I4, I1, I2},
        markers \in {<<>>, <<Line(2, <<>>, FREL, Natural)>>,
                     <<Line(2, <<>>, MREL, Natural)>>}}

InitWalk == \E file \in WalkFiles : Constructed(file)

CallWalk ==
    \E individual \in Targets, anc_type \in ParentTypes :
        WalkCall(individual, anc_type)

NextWalk == CallWalk \/ WalkRecurse \/ WalkReturn

\* the interpreter goes on with a call in progress
SpecWalk ==
    InitWalk /\ [][NextWalk]_vars /\ WF_vars(WalkRecurse) /\ WF_vars(WalkReturn)

----------------------------------------------------------------------------
(* Properties of the tree builder and the line grammar *)

\* number of times x occurs in the sequence seq
Count(seq, x) == Cardinality({i \in DOMAIN seq : seq[i] = x})

\* 1-based number of the line read last: a line ends at its "\n", and the
\* last line is the text after the last "\n"
LinesRead ==
    Count(text, LF) + (IF text # <<>> /\ text[Len(text)] # LF THEN 1 ELSE 0)

\* the level written at the start of a line
LineLevel(l) == int(Upto(l, RunLen(l, 1, DigitChars, TRUE)))

\* the element built from the line before the one read last (the virtual
\* root when there is none): elements are created in line order, and a
\* rejected line creates none
PrecedingElement ==
    IF error = NoError THEN Len(elements) - 1 ELSE Len(elements)

\* C1: after a successful parse, every element other than the virtual root
\* has a parent, is exactly one level below it and occurs exactly once among
\* the parent's children; the virtual root has level -1 and no parent.
C1_StructureInvariant ==
    pc = "done" =>
        /\ elements[Root].level = -1
        /\ elements[Root].parent = None
        /\ \A id \in 2..Len(elements) :
              LET p == elements[id].parent IN
              /\ p # None
              /\ elements[id].level = elements[p].level + 1
              /\ Count(elements[p].children, id) = 1

\* a parse that succeeded on a line of level 2 directly followed by a line
\* of level 0: the parent search walked up two elements
C1_Witness ==
    /\ pc = "done"
    /\ \E i \in 2..(Len(elements) - 1) :
          elements[i].level = 2 /\ elements[i + 1].level = 0

\* C5: a line the grammar accepts is rejected with the structure error
\* exactly when its level is greater than the level of the line before it
\* plus one (the virtual root's -1 before the first line), and the error
\* carries the 1-based number of that line; equal or smaller levels are
\* never rejected for structure.
C5_LevelJumpRejection ==
    line # <<>> =>
        /\ error.kind = "structure" <=>
              /\ error.kind # "grammar"
              /\ LineLevel(line) > elements[PrecedingElement].level + 1
        /\ error.kind = "structure" => error.line = LinesRead

\* a level-2 line directly after a level-0 line, rejected as line 2 or later
C5_Witness ==
    /\ error.kind = "structure"
    /\ error.line >= 2
    /\ LineLevel(line) = elements[PrecedingElement].level + 2

\* C4: whenever the parse succeeds, the serialized forest
\* (root().get_individual(), what save_gedcom writes) is the text that was
\* read, character for character.
C4_ParseSerializeRoundTrip ==
    pc = "done" => get_individual(elements, Root) = text

\* the grammar of a line, stated on the whole line:
\* level SP [pointer SP] tag [SP value] terminator
IsLevel(s) ==
    /\ s # <<>>
    /\ \A i \in DOMAIN s : s[i] \in DigitChars
    /\ s[1] = "0" => Len(s) = 1

IsPointer(s) ==
    /\ Len(s) >= 3
    /\ s[1] = AT
    /\ s[Len(s)] = AT
    /\ \A i \in 2..(Len(s) - 1) : s[i] # AT

IsTag(s) == s # <<>> /\ \A i \in DOMAIN s : s[i] \in TagChars

IsValue(s) == \A i \in DOMAIN s : s[i] \notin EolChars

Terminators == {<<LF>>, <<CR>>, <<CR, LF>>}

\* a: last character of the level, b: the space before the tag, c: last
\* character of the tag, d: last character before the terminator
MatchesGrammar(l) ==
    \E a, b, c, d \in 1..Len(l) :
        /\ a < b /\ b < c /\ c <= d /\ d < Len(l)
        /\ IsLevel(SubSeq(l, 1, a))
        /\ l[a + 1] = SP
        /\ b = a + 1 \/ (IsPointer(SubSeq(l, a + 2, b - 1)) /\ l[b] = SP)
        /\ IsTag(SubSeq(l, b + 1, c))
        /\ d = c \/ (l[c + 1] = SP /\ IsValue(SubSeq(l, c + 2, d)))
        /\ SubSeq(l, d + 1, Len(l)) \in Terminators

\* C6: every line that does not match the grammar over its whole length makes
\* the parse fail with the grammar error naming that line's 1-based number;
\* no such line becomes an element.
C6_GrammarRejection ==
    (line # <<>> /\ ~MatchesGrammar(line)) => error = GrammarError(LinesRead)

----------------------------------------------------------------------------
(* Properties of the multi-line codec *)

\* C2: multi_line_value() called right after set_multi_line_value(V) on the
\* same record returns exactly V, wherever V has its line breaks.
C2_MultiLineRoundTrip ==
    (result.op = "multi_line_value" /\ result.set # <<>>) =>
        result.value = result.set[1]

\* the length of an element's line without its value and terminator: level,
\* pointer, tag and their separating spaces
PrefixLength(e) ==
    Len(str(e.level)) + (IF e.pointer # <<>> THEN 1 + Len(e.pointer) ELSE 0)
    + 1 + Len(e.tag)

\* the length of an element's line without its terminator
SerializedLength(e) ==
    PrefixLength(e) + (IF e.value # <<>> THEN 1 + Len(e.value) ELSE 0)

\* the CONC and CONT children of an element
ContinuationChildren(id) ==
    {c \in {elements[id].children[i] : i \in DOMAIN elements[id].children} :
        elements[c].tag \in {CONC, CONT}}

\* C3 as stated: after set_multi_line_value(V) on a record, the line of the
\* record and the line of each of its CONC/CONT children is at most 255
\* characters long, the terminator not counted.
C3_LineBudget_AnyRecord ==
    result.op = "set_multi_line_value" =>
        \A id \in {result.element} \cup ContinuationChildren(result.element) :
            SerializedLength(elements[id]) <= MaxLineLength

\* C3, amended: after set_multi_line_value(V) on a record, the line of each
\* of its CONC/CONT children is at most 255 characters long, and so is the
\* line of the record itself provided its level, pointer and tag with their
\* separating spaces do not already exceed 255 characters (the terminator is
\* not counted).
C3_LineBudget ==
    result.op = "set_multi_line_value" =>
        /\ \A c \in ContinuationChildren(result.element) :
              SerializedLength(elements[c]) <= MaxLineLength
        /\ PrefixLength(elements[result.element]) <= MaxLineLength =>
              SerializedLength(elements[result.element]) <= MaxLineLength

\* a value split over the record and two CONC children, the record's line and
\* a child's line filling the budget to the last character
C3_Witness ==
    /\ result.op = "set_multi_line_value"
    /\ SerializedLength(elements[result.element]) = MaxLineLength
    /\ Cardinality(ContinuationChildren(result.element)) >= 2
    /\ \E c \in ContinuationChildren(result.element) :
          SerializedLength(elements[c]) = MaxLineLength

----------------------------------------------------------------------------
(* Properties of the caches *)

\* the elements of the forest: those that hang, child by child, below the
\* virtual root
RECURSIVE Attached(_)
Attached(id) ==
    \/ id = Root
    \/ /\ elements[id].parent # None
       /\ Count(elements[elements[id].parent].children, id) >= 1
       /\ Attached(elements[id].parent)

Forest == {id \in DOMAIN elements : id # Root /\ Attached(id)}

\* the pre-order flattening of the elements ids and what hangs below them
RECURSIVE PreOrder(_)
PreOrder(ids) ==
    IF ids = <<>> THEN <<>>
    ELSE <<Head(ids)>> \o PreOrder(elements[Head(ids)].children) \o PreOrder(Tail(ids))

\* d maps the pointer of every element of the forest that has one to that
\* element, and has no other key
IsPointerIndex(d) ==
    /\ \A id \in Forest :
          elements[id].pointer # <<>> =>
              /\ elements[id].pointer \in DOMAIN d
              /\ d[elements[id].pointer] = id
    /\ DOMAIN d \subseteq {elements[id].pointer : id \in Forest}

\* C7: the dictionary returned by the first element_dict() after the parse or
\* after an invalidate_cache() maps the pointer of every element of the
\* forest that has a pointer, at any depth, to that element, and has no other
\* key.
C7_PointerIndexComplete ==
    (result.op = "element_dict" /\ result.first) => IsPointerIndex(result.value)

\* C8: the first element_list() after an invalidate_cache() returns the
\* pre-order flattening of the forest as it is at that call, and the first
\* element_dict() after it returns the pointer index of that forest.
C8_CacheRefresh ==
    /\ (result.op = "element_list" /\ result.first) =>
          result.value = PreOrder(elements[Root].children)
    /\ (result.op = "element_dict" /\ result.first) =>
          IsPointerIndex(result.value)

----------------------------------------------------------------------------
(* Properties of the queries *)

\* the role set of a member type
RoleSet(mem_type) ==
    IF mem_type = ALL THEN {HUSB, WIFE, CHIL}
    ELSE IF mem_type = PARENTS THEN {HUSB, WIFE}
    ELSE {mem_type}

\* the values of the children of an element, in the order of the children
ChildValues(id) ==
    [i \in DOMAIN elements[id].children |-> elements[elements[id].children[i]].value]

\* the tags of the children of an element, in the order of the children
ChildTags(id) ==
    [i \in DOMAIN elements[id].children |-> elements[elements[id].children[i]].tag]

\* list is, in the order of the children, what the values of the children
\* of id at the positions S resolve to in the pointer index
IsResolvedInOrder(list, id, S) ==
    /\ Len(list) = Cardinality(S)
    /\ \A i \in S :
          list[Cardinality({j \in S : j <= i})] = element_dict[ChildValues(id)[i]]

\* C9: get_family_members on a FAM record returns without raising, in the
\* order of the family's children, the element that the value of each
\* selected child resolves to in the pointer index; a child is selected
\* exactly when its tag is in the role set of the member type and its value
\* resolves.
C9_FamilyMembers ==
    (result.op = "get_family_members" /\ elements[result.element].tag = FAM) =>
        /\ ~result.outcome.raised
        /\ IsResolvedInOrder(result.outcome.value, result.element,
              {i \in DOMAIN ChildTags(result.element) :
                  /\ ChildTags(result.element)[i] \in RoleSet(result.type)
                  /\ ChildValues(result.element)[i] \in DOMAIN element_dict})

\* PARENTS on a family of a husband, a wife and a member of a parent tag
\* whose value does not resolve: the husband and the wife are returned in
\* the order of their lines
C9_Witness ==
    /\ result.op = "get_family_members"
    /\ result.type = PARENTS
    /\ Len(ChildValues(result.element)) = MaxMembers
    /\ \E i \in DOMAIN ChildValues(result.element) :
          /\ ChildTags(result.element)[i] \in {HUSB, WIFE}
          /\ ChildValues(result.element)[i] \notin DOMAIN element_dict
    /\ ~result.outcome.raised
    /\ Len(result.outcome.value) = 2
    /\ elements[result.outcome.value[1]].pointer = I1
    /\ elements[result.outcome.value[2]].pointer = I2

\* C10: families on an INDI record returns without raising, in the order of
\* the individual's children, the element that the value of each selected
\* child resolves to in the pointer index; a child is selected exactly when
\* its tag is the family type asked for and its value resolves to an element
\* tagged FAM.
C10_Families ==
    (result.op = "families" /\ elements[result.element].tag = INDI) =>
        /\ ~result.outcome.raised
        /\ IsResolvedInOrder(result.outcome.value, result.element,
              {i \in DOMAIN ChildTags(result.element) :
                  /\ ChildTags(result.element)[i] = result.type
                  /\ ChildValues(result.element)[i] \in DOMAIN element_dict
                  /\ elements[element_dict[ChildValues(result.element)[i]]].tag = FAM})

\* FAMS on an individual whose first link is to an individual and whose
\* second link is to a family: only the family is returned
C10_Witness ==
    /\ result.op = "families"
    /\ result.type = FAMS
    /\ Len(ChildValues(result.element)) = MaxLinks
    /\ ChildTags(result.element)[1] = FAMS
    /\ ChildValues(result.element)[1] = I2
    /\ ~result.outcome.raised
    /\ Len(result.outcome.value) = 1
    /\ elements[result.outcome.value[1]].pointer = F2

----------------------------------------------------------------------------
(* Properties of the kinship queries *)

\* the concatenation of a sequence of sequences
RECURSIVE Flatten(_)
Flatten(seqs) == IF seqs = <<>> THEN <<>> ELSE Head(seqs) \o Flatten(Tail(seqs))

\* the elements that the values of the children of id tagged tag resolve to
\* in the pointer index, in the order of the children
Resolved(id, tag) ==
    Flatten([i \in DOMAIN ChildTags(id) |->
                IF ChildTags(id)[i] = tag /\ ChildValues(id)[i] \in DOMAIN element_dict
                THEN <<element_dict[ChildValues(id)[i]]>>
                ELSE <<>>])

\* the FAMC families of an individual
FamcFamilies(id) == SelectSeq(Resolved(id, FAMC), LAMBDA f : elements[f].tag = FAM)

\* what the lines below the entry c of a family name as natural parents
NaturalOfEntry(family, c) ==
    Flatten([j \in DOMAIN ChildTags(c) |->
                IF ChildValues(c)[j] = Natural /\ ChildTags(c)[j] = MREL
                THEN Resolved(family, WIFE)
                ELSE IF ChildValues(c)[j] = Natural /\ ChildTags(c)[j] = FREL
                THEN Resolved(family, HUSB)
                ELSE <<>>])

\* the natural parents of an individual: family by family, CHIL entry of the
\* individual by entry, marker by marker
NaturalParents(id) ==
    Flatten([k \in DOMAIN FamcFamilies(id) |->
        Flatten([i \in DOMAIN ChildTags(FamcFamilies(id)[k]) |->
            IF /\ ChildTags(FamcFamilies(id)[k])[i] = CHIL
               /\ ChildValues(FamcFamilies(id)[k])[i] = elements[id].pointer
            THEN NaturalOfEntry(FamcFamilies(id)[k],
                                elements[FamcFamilies(id)[k]].children[i])
            ELSE <<>>])])

\* C11: get_parents(individual, "NAT") on an individual returns exactly, for
\* each FAMC family of the individual, each CHIL entry of that family whose
\* value is the individual's pointer and each line below that entry, the
\* family's wives when the line is _MREL Natural and the family's husbands
\* when it is _FREL Natural, in that order; a family without such a line
\* contributes nothing.
C11_NaturalParents ==
    (/\ result.op = "get_parents"
     /\ result.type = NAT
     /\ elements[result.element].tag = INDI) =>
        /\ ~result.outcome.raised
        /\ result.outcome.value = NaturalParents(result.element)

\* the entry of I1 carries _MREL Natural before _FREL Natural: the wife is
\* returned before the husband
C11_Witness ==
    /\ result.op = "get_parents"
    /\ result.type = NAT
    /\ elements[result.element].pointer = I1
    /\ ~result.outcome.raised
    /\ Len(result.outcome.value) = 2
    /\ elements[result.outcome.value[1]].pointer = I3
    /\ elements[result.outcome.value[2]].pointer = I2

\* the elements of a sequence
Range(seq) == {seq[i] : i \in DOMAIN seq}

\* the natural parents of an element, as a set; what is no individual has
\* none
NaturalParentSet(id) ==
    IF elements[id].tag = INDI THEN Range(NaturalParents(id)) ELSE {}

\* S and everything reached from it by steps to a natural parent
RECURSIVE NaturalClosure(_)
NaturalClosure(S) ==
    LET T == S \cup UNION {NaturalParentSet(x) : x \in S} IN
    IF T = S THEN S ELSE NaturalClosure(T)

\* what is reached from id by one or more steps to a natural parent
NaturalAncestors(id) == NaturalClosure(NaturalParentSet(id))

\* C12: every element that get_ancestors(individual, "NAT") returns is
\* reached from the individual by a chain of one or more steps to a natural
\* parent.
C12_NaturalAncestorsOnly ==
    (/\ result.op = "get_ancestors"
     /\ result.type = NAT
     /\ ~result.outcome.raised) =>
        Range(result.outcome.value) \subseteq NaturalAncestors(result.element)

\* the natural parents of an element in the order get_parents returns them;
\* what is no individual has none
NaturalParentSeq(id) ==
    IF elements[id].tag = INDI THEN NaturalParents(id) ELSE <<>>

\* the chains of natural parents that start at id, each given by the
\* positions taken in the successive lists of natural parents; the set is
\* finite on a database without parent cycles
RECURSIVE ChainsFrom(_)
ChainsFrom(id) ==
    {<<>>} \cup UNION {{<<i>> \o c : c \in ChainsFrom(NaturalParentSeq(id)[i])} :
                         i \in DOMAIN NaturalParentSeq(id)}

\* the elements along a chain, id first
RECURSIVE Walk(_, _)
Walk(id, chain) ==
    IF chain = <<>> THEN <<id>>
    ELSE <<id>> \o Walk(NaturalParentSeq(id)[Head(chain)], Tail(chain))

\* the pointer of the last element of a path is the pointer of anc
EndsAt(path, anc) == elements[path[Len(path)]].pointer = elements[anc].pointer

\* the chains from desc that end at anc and do not come by it before
ChainsTo(desc, anc) ==
    {c \in ChainsFrom(desc) :
        /\ EndsAt(Walk(desc, c), anc)
        /\ \A n \in 0..(Len(c) - 1) : ~EndsAt(Walk(desc, SubSeq(c, 1, n)), anc)}

\* chain a comes before chain b in depth-first order: at the first position
\* where they differ a takes the earlier parent
RECURSIVE Before(_, _)
Before(a, b) ==
    IF a = <<>> \/ b = <<>> THEN a = <<>>
    ELSE IF Head(a) = Head(b) THEN Before(Tail(a), Tail(b))
    ELSE Head(a) < Head(b)

\* the outcome C13 describes: the first chain to anc in depth-first order, or
\* the not-found signal when there is none
IsFirstPath(outcome, desc, anc) ==
    /\ ~outcome.raised
    /\ outcome.found <=> ChainsTo(desc, anc) # {}
    /\ outcome.found =>
          /\ outcome.value[1] = desc
          /\ EndsAt(outcome.value, anc)
          /\ \A k \in 2..Len(outcome.value) :
                outcome.value[k] \in NaturalParentSet(outcome.value[k - 1])
          /\ \E c \in ChainsTo(desc, anc) :
                /\ outcome.value = Walk(desc, c)
                /\ \A b \in ChainsTo(desc, anc) : Before(c, b)

\* C13 as stated, for individuals desc and anc: find_path_to_anc(desc, anc)
\* returns the first path of natural parents from desc to anc in depth-first
\* order, and the not-found signal exactly when there is no such path.
C13_PathToAncestor_AnyDatabase ==
    (/\ result.op = "find_path_to_anc"
     /\ elements[result.element].tag = INDI
     /\ elements[result.anc].tag = INDI) =>
        IsFirstPath(result.outcome, result.element, result.anc)

\* C13, amended: when desc and every element reached from it by steps to a
\* natural parent is an individual, find_path_to_anc(desc, anc) returns the
\* first path of natural parents from desc to anc in depth-first order, and
\* the not-found signal exactly when there is no such path.
C13_PathToAncestor ==
    (/\ result.op = "find_path_to_anc"
     /\ \A x \in NaturalClosure({result.element}) : elements[x].tag = INDI) =>
        IsFirstPath(result.outcome, result.element, result.anc)

\* the path from the grandchild I1 over its father I2 to the grandfather I4,
\* found after the search from the mother, the first natural parent, failed
C13_Witness ==
    /\ result.op = "find_path_to_anc"
    /\ \A x \in NaturalClosure({result.element}) : elements[x].tag = INDI
    /\ result.outcome.found
    /\ Len(result.outcome.value) = 3
    /\ elements[result.outcome.value[1]].pointer = I1
    /\ elements[result.outcome.value[2]].pointer = I2
    /\ elements[result.outcome.value[3]].pointer = I4
    /\ elements[NaturalParentSeq(result.element)[1]].pointer = I3

\* C14: families, get_parents and get_ancestors called on an element that is
\* not tagged INDI, and get_family_members called on an element that is not
\* tagged FAM, raise ValueError and return nothing.
C14_WrongKindRejection ==
    (\/ /\ result.op \in {"families", "get_parents", "get_ancestors"}
        /\ elements[result.element].tag # INDI
     \/ /\ result.op = "get_family_members"
        /\ elements[result.element].tag # FAM) =>
        /\ result.outcome.raised
        /\ DOMAIN result.outcome = {"raised"}

\* get_ancestors on a family and get_family_members on an individual
C14_Witness ==
    \/ /\ result.op = "get_ancestors"
       /\ elements[result.element].tag = FAM
       /\ result.outcome.raised
    \/ /\ result.op = "get_family_members"
       /\ elements[result.element].tag = INDI
       /\ result.outcome.raised

----------------------------------------------------------------------------
(* Further properties of the tree builder and the line grammar *)

\* C15: after a successful parse no two distinct elements carry the same
\* non-empty pointer.
C15_PointerUniqueness ==
    pc = "done" =>
        \A a, b \in DOMAIN elements :
            (a # b /\ elements[a].pointer # <<>>) =>
                elements[a].pointer # elements[b].pointer

\* the grammar of a line without a terminator, stated on the whole line:
\* level SP [pointer SP] tag [SP value]; a, b, c as in MatchesGrammar
MatchesGrammarUnterminated(l) ==
    \E a, b, c \in 1..Len(l) :
        /\ a < b /\ b < c
        /\ IsLevel(SubSeq(l, 1, a))
        /\ l[a + 1] = SP
        /\ b = a + 1 \/ (IsPointer(SubSeq(l, a + 2, b - 1)) /\ l[b] = SP)
        /\ IsTag(SubSeq(l, b + 1, c))
        /\ c = Len(l) \/ (l[c + 1] = SP /\ IsValue(SubSeq(l, c + 2, Len(l))))

\* C16: a line that matches the grammar but carries no terminator is not
\* rejected by the grammar.
C16_UnterminatedLineAccepted ==
    (line # <<>> /\ MatchesGrammarUnterminated(line)) => error.kind # "grammar"

----------------------------------------------------------------------------
(* Properties of the queries as reads *)

QueryOps ==
    {"families", "get_family_members", "get_parents", "get_ancestors",
     "find_path_to_anc"}

\* d maps every non-empty pointer of a child of the root to the last child
\* of the root that carries it, and has no other key
IsRecordIndex(d) ==
    /\ DOMAIN d = {elements[r].pointer : r \in Range(elements[Root].children)} \ {<<>>}
    /\ \A i \in DOMAIN elements[Root].children :
          LET r == elements[Root].children[i] IN
          (/\ elements[r].pointer # <<>>
           /\ \A j \in DOMAIN elements[Root].children :
                 j > i => elements[elements[Root].children[j]].pointer # elements[r].pointer)
          => d[elements[r].pointer] = r

\* C17 as stated: a query leaves every element, the stored element list and
\* the stored element dictionary as they were.
C17_QueriesArePureReads_AnyCache ==
    [][result'.op \in QueryOps =>
          /\ elements' = elements
          /\ element_list' = element_list
          /\ element_dict' = element_dict]_vars

\* C17, amended: a query leaves every element and the stored element list as
\* they were; the stored element dictionary is left as it was, except that a
\* query may fill an empty one with the index of the records of the forest.
C17_QueriesArePureReads ==
    [][result'.op \in QueryOps =>
          /\ elements' = elements
          /\ element_list' = element_list
          /\ \/ element_dict' = element_dict
             \/ /\ DOMAIN element_dict = {}
                /\ IsRecordIndex(element_dict')]_vars

\* a query answered while the element list is stored and the stored
\* dictionary is out of date: it lacks the record added by hand
C17_Witness ==
    /\ result.op \in QueryOps
    /\ element_list # <<>>
    /\ DOMAIN element_dict # {}
    /\ ~IsRecordIndex(element_dict)

----------------------------------------------------------------------------
(* Properties of concurrent reads *)

\* C18: with threads that only call element_list() and element_dict() on a
\* forest that nothing changes, every call returns what it returns in a
\* single thread: element_list() the pre-order flattening of the forest, each
\* element once, and element_dict() the index of the records.
C18_ConcurrentReads ==
    \A t \in Threads :
        threads[t].at = "idle" =>
            /\ threads[t].op = "element_list" =>
                  threads[t].returned = PreOrder(elements[Root].children)
            /\ threads[t].op = "element_dict" =>
                  IsRecordIndex(threads[t].returned)

----------------------------------------------------------------------------
(* Properties of the parent selection *)

\* the elements from id upward along the parent links, id included
RECURSIVE ParentChain(_)
ParentChain(id) ==
    IF id = None THEN {} ELSE {id} \cup ParentChain(elements[id].parent)

\* the element parsed last before id whose level is one less than id's
MostRecentAbove(id) ==
    CHOOSE p \in 1..(id - 1) :
        /\ elements[p].level = elements[id].level - 1
        /\ \A q \in (p + 1)..(id - 1) : elements[q].level # elements[id].level - 1

\* C19: every element built from a line of level L hangs below the element
\* parsed last before it whose level is L-1 (the virtual root when L = 0);
\* that element lies on the parent links upward from the element parsed just
\* before, and the new element became its last child: children stand in the
\* order in which they were parsed.
C19_ParentSelection ==
    \A id \in 2..Len(elements) :
        LET p == elements[id].parent IN
        /\ p \in 1..(id - 1)
        /\ elements[p].level = elements[id].level - 1
        /\ p = MostRecentAbove(id)
        /\ p \in ParentChain(id - 1)
        /\ \E i \in DOMAIN elements[p].children :
              /\ elements[p].children[i] = id
              /\ \A j \in DOMAIN elements[p].children :
                    j < i <=> elements[p].children[j] < id

\* a line of level 1 read after a line of level 2: the walk went up one
\* link, and the new element became the second child of its parent
C19_Witness ==
    /\ error = NoError
    /\ Len(elements) >= 3
    /\ elements[Len(elements)].level = 1
    /\ elements[Len(elements) - 1].level = 2
    /\ Len(elements[elements[Len(elements)].parent].children) = 2

----------------------------------------------------------------------------
(* Properties of the places where the codec cuts a line *)

\* the record and its CONC and CONT children, in their order
Chunks(id) ==
    <<id>> \o SelectSeq(elements[id].children,
                        LAMBDA c : elements[c].tag \in {CONC, CONT})

\* the positions in Chunks(id) after which a line was cut: the next chunk is
\* a CONC child
Cuts(id) ==
    {k \in 1..(Len(Chunks(id)) - 1) : elements[Chunks(id)[k + 1]].tag = CONC}

\* the number of characters the value of an element may have: what the 255
\* characters leave after level, pointer, tag, their separating spaces and
\* the terminator
Budget(e) ==
    IF PrefixLength(e) + Len(e.crlf) > MaxLineLength THEN 0
    ELSE MaxLineLength - (PrefixLength(e) + Len(e.crlf))

\* the number of characters other than spaces at the end of a string
TrailingWord(s) ==
    IF \E i \in DOMAIN s : s[i] = SP
    THEN Len(s) - (CHOOSE i \in DOMAIN s :
                      s[i] = SP /\ \A j \in DOMAIN s : s[j] = SP => j <= i)
    ELSE Len(s)

\* the number of characters other than spaces at the start of a string
LeadingWord(s) ==
    IF \E i \in DOMAIN s : s[i] = SP
    THEN (CHOOSE i \in DOMAIN s :
             s[i] = SP /\ \A j \in DOMAIN s : s[j] = SP => i <= j) - 1
    ELSE Len(s)

\* C20 as stated: a cut never falls inside a word (characters other than
\* spaces on both sides of it), unless the word is longer than the full
\* budget of a line.
C20_WordBoundary ==
    result.op = "set_multi_line_value" =>
        \A k \in Cuts(result.element) :
            LET e == elements[Chunks(result.element)[k]]
                c == elements[Chunks(result.element)[k + 1]]
            IN  (TrailingWord(e.value) > 0 /\ LeadingWord(c.value) > 0) =>
                    /\ TrailingWord(e.value) + LeadingWord(c.value) > Budget(e)
                    /\ TrailingWord(e.value) + LeadingWord(c.value) > Budget(c)

\* C20, amended: a line is cut at the budget, also inside a word; only when
\* the chunk would end with spaces is the cut moved back before those spaces,
\* which then begin the continuation, and a chunk of spaces only is cut at
\* the budget.
C20_SpaceBoundary ==
    result.op = "set_multi_line_value" =>
        \A k \in Cuts(result.element) :
            LET e == elements[Chunks(result.element)[k]]
                c == elements[Chunks(result.element)[k + 1]]
                gap == Budget(e) - Len(e.value)
            IN  /\ gap >= 0
                /\ \/ e.value = <<>>
                   \/ e.value[Len(e.value)] # SP
                   \/ gap = 0 /\ \A i \in DOMAIN e.value : e.value[i] = SP
                /\ gap > 0 =>
                      /\ e.value # <<>>
                      /\ Len(c.value) >= gap
                      /\ \A i \in 1..gap : c.value[i] = SP

\* both kinds of cut in one value: a cut moved back before spaces, which
\* begin the continuation, and a cut at the budget inside a word that is
\* shorter than the budget
C20_Witness ==
    /\ result.op = "set_multi_line_value"
    /\ \E k \in Cuts(result.element) :
          /\ Len(elements[Chunks(result.element)[k]].value)
                < Budget(elements[Chunks(result.element)[k]])
          /\ elements[Chunks(result.element)[k + 1]].value[1] = SP
    /\ \E k \in Cuts(result.element) :
          LET e == elements[Chunks(result.element)[k]]
              c == elements[Chunks(result.element)[k + 1]]
          IN  /\ TrailingWord(e.value) > 0
              /\ LeadingWord(c.value) > 0
              /\ TrailingWord(e.value) + LeadingWord(c.value) <= Budget(e)

----------------------------------------------------------------------------
(* Properties of the encoded value, chunk by chunk *)

\* the text that was left when the k-th chunk of a record was written: the
\* values of that chunk and of the CONC children that directly follow it
RECURSIVE Offered(_, _)
Offered(id, k) ==
    elements[Chunks(id)[k]].value \o
        (IF k + 1 <= Len(Chunks(id)) /\ elements[Chunks(id)[k + 1]].tag = CONC
         THEN Offered(id, k + 1) ELSE <<>>)

AllSpaces(s) == \A i \in DOMAIN s : s[i] = SP

\* a string without the spaces that end it
StripTrailingSpaces(s) ==
    IF AllSpaces(s) THEN <<>>
    ELSE Upto(s, CHOOSE i \in DOMAIN s :
                     s[i] # SP /\ \A j \in DOMAIN s : s[j] # SP => j <= i)

\* C21: a chunk cut from a text longer than the budget of its element is the
\* first `budget` characters of the text without the spaces that end them,
\* or these characters themselves when they are all spaces.
C21_TrailingSpaceSplit ==
    result.op = "set_multi_line_value" =>
        \A k \in DOMAIN Chunks(result.element) :
            LET e == elements[Chunks(result.element)[k]]
                t == Offered(result.element, k)
                first == Upto(t, Budget(e))
            IN  Len(t) > Budget(e) =>
                    e.value = IF AllSpaces(first) THEN first
                              ELSE StripTrailingSpaces(first)

\* a chunk cut before the space that its budget ends on
C21_Witness ==
    /\ result.op = "set_multi_line_value"
    /\ \E k \in DOMAIN Chunks(result.element) :
          LET e == elements[Chunks(result.element)[k]]
              t == Offered(result.element, k)
          IN  /\ Len(t) > Budget(e)
              /\ Budget(e) > 0
              /\ t[Budget(e)] = SP
              /\ Len(e.value) < Budget(e)
              /\ e.value # <<>>

\* the value of an element and what its children are, one after the other
Content(els, id) ==
    [value |-> els[id].value,
     children |-> [i \in DOMAIN els[id].children |->
                      LET c == els[els[id].children[i]] IN
                      [level |-> c.level, pointer |-> c.pointer, tag |-> c.tag,
                       value |-> c.value, crlf |-> c.crlf,
                       children |-> Len(c.children)]]]

\* the children of an element in a store that are not CONC or CONT children
OtherChildren(els, id) ==
    SelectSeq(els[id].children, LAMBDA c : els[c].tag \notin {CONC, CONT})

\* C22: set_multi_line_value(V) keeps the children of the record that are not
\* CONC or CONT children, unchanged and in their order, and leaves no CONC or
\* CONT child that was there before the call; a second call with the same V
\* directly after the first leaves the value of the record and its children,
\* one after the other, as the first call left them.
C22_Reencoding ==
    [][(/\ result'.op = "set_multi_line_value"
        /\ calls' # calls
        /\ pc' = "done") =>
          /\ OtherChildren(elements', result'.element)
                = OtherChildren(elements, result'.element)
          /\ \A i \in DOMAIN elements'[result'.element].children :
                LET c == elements'[result'.element].children[i] IN
                IF elements'[c].tag \in {CONC, CONT}
                THEN c \notin DOMAIN elements
                ELSE elements'[c] = elements[c]
          /\ PrecedingSet(result'.element) = <<result'.value>> =>
                Content(elements', result'.element)
                   = Content(elements, result'.element)]_vars

\* the record with CONC and CONT children among other children after a value
\* of several chunks and lines was set a second time
C22_Witness ==
    /\ result.op = "set_multi_line_value"
    /\ calls = 2
    /\ result.value \notin ShortValues
    /\ Len(OtherChildren(elements, result.element)) = 2
    /\ \E c \in ContinuationChildren(result.element) : elements[c].tag = CONC
    /\ \E c \in ContinuationChildren(result.element) : elements[c].tag = CONT

----------------------------------------------------------------------------
(* Further properties of the kinship queries *)

\* C23: find_path_to_anc(desc, anc) raises ValueError, and returns nothing,
\* whenever desc or anc is not tagged INDI.
C23_PathWrongKindRejection ==
    (/\ result.op = "find_path_to_anc"
     /\ \/ elements[result.element].tag # INDI
        \/ elements[result.anc].tag # INDI) =>
        /\ result.outcome.raised
        /\ DOMAIN result.outcome = {"raised"}

----------------------------------------------------------------------------
(* Properties of the ancestor walk *)

\* the parents get_parents gives for an element, none for an element that is
\* no individual
WalkParents(id, type) ==
    IF elements[id].tag = INDI
    THEN Range(get_parents(elements, element_dict_of(elements, element_dict),
                           id, type).value)
    ELSE {}

\* the elements reached from a set of elements by steps to a parent of type
\* "ALL", the set included
RECURSIVE ParentClosure(_)
ParentClosure(S) ==
    LET next == S \cup UNION {WalkParents(n, ALL) : n \in S} IN
    IF next = S THEN S ELSE ParentClosure(next)

\* an element that is among its own ancestors
OwnAncestor(id) == id \in ParentClosure(WalkParents(id, ALL))

\* the walk that starts with the parents of the given type of an element and
\* goes on with parents of type "ALL" can come to an element that is its own
\* ancestor
CycleFollowed(id, type) ==
    \E n \in ParentClosure(WalkParents(id, type)) : OwnAncestor(n)

\* C24 as stated: a call of get_ancestors ends when no element that is its own
\* ancestor can be reached from the individual through parents, and a call
\* with the default anc_type never ends when one can.
C24_AncestorWalkTermination ==
    /\ (stack # <<>> /\ ~CycleFollowed(stack[1].individual, ALL))
          ~> (stack = <<>>)
    /\ [][(/\ stack # <<>>
           /\ stack[1].anc_type = ALL
           /\ CycleFollowed(stack[1].individual, ALL)) => stack' # <<>>]_vars

\* C24, amended: every call of get_ancestors ends.  It ends with the
\* interpreter's RecursionError only when the walk can come to an element
\* that is its own ancestor, and it returns a list only when the walk cannot.
C24_AncestorWalkEnds ==
    /\ (stack # <<>>) ~> (stack = <<>>)
    /\ [](result.op = "get_ancestors" =>
             /\ result.outcome = RecursionError =>
                   CycleFollowed(result.element, result.type)
             /\ ~result.outcome.raised =>
                   ~CycleFollowed(result.element, result.type))

\* a call with the default anc_type on an individual who is an ancestor of
\* himself, ended by the RecursionError
C24_Witness ==
    /\ result.op = "get_ancestors"
    /\ result.type = ALL
    /\ result.outcome = RecursionError
    /\ OwnAncestor(result.element)

----------------------------------------------------------------------------
(* Further properties of the caches *)

\* C25: an element_list() or element_dict() call that is not the first since
\* the construction or the last invalidate_cache() returns what the first
\* one computed and stored, an empty list or dictionary included, whatever
\* was done to the forest since.
C25_NoAutomaticRebuild ==
    [][/\ (result'.op = "element_list" /\ "element_list" \notin unread) =>
              result'.value = element_list
       /\ (result'.op = "element_dict" /\ "element_dict" \notin unread) =>
              result'.value = element_dict]_vars

----------------------------------------------------------------------------
(* Further properties of the encoded value, line by line *)

\* a string split on its line breaks "\n", "\r" and "\r\n": the text before
\* the first line break, the text between each line break and the next, and
\* the text after the last one
RECURSIVE LogicalLines(_)
LogicalLines(s) ==
    LET k == RunLen(s, 1, EolChars, FALSE) IN
    IF k = Len(s) THEN <<s>>
    ELSE <<Upto(s, k)>> \o
         LogicalLines(From(s, IF s[k + 1] = CR /\ k + 2 <= Len(s) /\ s[k + 2] = LF
                              THEN k + 2 ELSE k + 1))

\* the positions in Chunks(id) where a line starts: the record and its CONT
\* children
LineStarts(id) ==
    SelectSeq([k \in DOMAIN Chunks(id) |-> k],
              LAMBDA k : k = 1 \/ elements[Chunks(id)[k]].tag = CONT)

\* C26: after set_multi_line_value(V) on a record, with V split on its line
\* breaks into v0..vn, the record has exactly n CONT children, and the value
\* of the record, or of the i-th CONT child, followed by the values of the
\* CONC children up to the next CONT child is v0, or vi.
C26_LosslessPerLine ==
    result.op = "set_multi_line_value" =>
        LET lines == LogicalLines(result.value)
            starts == LineStarts(result.element)
        IN  /\ Len(starts) = Len(lines)
            /\ \A i \in DOMAIN starts :
                  Offered(result.element, starts[i]) = lines[i]

\* the line of a CONC child of an element before the child has a value, as
\* __avail_chars measures it: level, tag and terminator
ConcLine(e) == unicode(Element(e.level + 1, <<>>, CONC, <<>>, e.crlf))

\* C27: when the line of a CONC child of the record without a value is
\* shorter than 255 characters, every call of set_multi_line_value returns,
\* every CONC child it created has at least one character of the value, and
\* the record has no more CONC and CONT children than the value has
\* characters.
C27_EncoderProgress ==
    Len(ConcLine(elements[Record])) < MaxLineLength =>
        /\ pc # "hung"
        /\ result.op = "set_multi_line_value" =>
              /\ \A c \in ContinuationChildren(result.element) :
                    elements[c].tag = CONC => elements[c].value # <<>>
              /\ Cardinality(ContinuationChildren(result.element))
                    <= Len(result.value)

\* a value set on a record whose own line leaves no room: all of it is in
\* CONC children, three or more
C27_Witness ==
    /\ result.op = "set_multi_line_value"
    /\ Len(ConcLine(elements[result.element])) < MaxLineLength
    /\ Budget(elements[result.element]) = 0
    /\ elements[result.element].value = <<>>
    /\ Cardinality({c \in ContinuationChildren(result.element) :
                       elements[c].tag = CONC}) >= 3

====
